---- MODULE Spec2Model ----
(***************************************************************************)
(* Session state subsystem of the stateful multi-agent customer service    *)
(* application: the entry point's find-or-create of a session (main.py),   *)
(* the read-modify-write ledger operations on a session's state, and the   *)
(* analytics / retention utilities of CustomerServiceDatabase              *)
(* (database_utils.py), over a session store shared by several processes.  *)
(***************************************************************************)
EXTENDS Integers, Sequences, FiniteSets, TLC

(* ------------------------------ bounds -------------------------------- *)
\* number of session ids the store can hand out
MaxSessions == 2
\* largest value of the clock
MaxClock == 1
\* number of ledger operations explored in one run of the program
MaxOps == 3
\* the same, over the runs of the program one after another
MaxRunOps == 2
\* the same, in the behaviours of two runs at the same time
MaxRaceOps == 2
\* the same, in the behaviours with every utility between the runs
MaxQuietOps == 1

(* ----------------------------- universe ------------------------------- *)
\* auth.py: the demo credentials
Users == {"alice", "bob"}
\* two runs of the entry point, possibly of the same user
Procs == {"p1", "p2"}
SessionIds == 1..MaxSessions
Times == 0..MaxClock
\* the course the sales agent sells (customer_service_agent/agent.py), and the catalogue
Sold == {"ai_marketing_platform"}
Courses == {"ai_marketing_platform", "adk_crash_course"}
\* agent names that sign an agent_response ("" : no name)
Agents == {"", "sales_agent"}
\* Python's None, where a number is expected
None == -1

(* --------------------------- list helpers ----------------------------- *)
Range(s) == {s[i] : i \in 1..Len(s)}

\* every ordering of the set S as a sequence without repetition
Perms(S) == {f \in [1..Cardinality(S) -> S] : \A i, j \in 1..Cardinality(S) : f[i] = f[j] => i = j}

IsPrefix(s, t) == Len(s) <= Len(t) /\ \A i \in 1..Len(s) : s[i] = t[i]

\* s without its i-th element
RemoveAt(s, i) == [j \in 1..(Len(s) - 1) |-> IF j < i THEN s[j] ELSE s[j + 1]]

RECURSIVE SumSeq(_)
SumSeq(s) == IF s = <<>> THEN 0 ELSE Head(s) + SumSeq(Tail(s))

(* ------------------------------ state --------------------------------- *)
VARIABLES
    store,      \* session id -> session record, for the sessions that exist
    now,        \* the clock
    USER_ID,    \* process -> the authenticated user of that run
    pc,         \* process -> position in main_async
    SESSION_ID, \* process -> the session the run continues
    snap,       \* process -> the state it read for the ledger operation in flight
    nOps,       \* number of ledger operations completed so far
    calls,      \* session id -> the records of the completed append_interaction calls
    raced,      \* session id -> a write based on an outdated read has landed
    lastWrite,  \* session id -> the last ledger write on the session
    exp,        \* process -> what the export in flight has collected so far
    existing_sessions, \* process -> the listing main_async continues from, until it is done with it
    res         \* the outcome of the last operation

vars == <<store, now, USER_ID, pc, SESSION_ID, snap, nOps, calls, raced, lastWrite, exp,
          existing_sessions, res>>

(* ------------------------------ config.py ----------------------------- *)
INITIAL_STATE_TEMPLATE ==
    [ user_name |-> "Antony Dos Santos",
      purchased_courses |-> <<>>,
      interaction_history |-> <<>> ]

DEFAULT_APP_NAME == "Customer Support"

get_initial_state(user_name) ==
    IF user_name # "" THEN [INITIAL_STATE_TEMPLATE EXCEPT !.user_name = user_name]
    ELSE INITIAL_STATE_TEMPLATE

(* ---------------------------- State Store ----------------------------- *)
SessionsOf(st, user) == {id \in DOMAIN st : st[id].user_id = user}

\* a variant that may hand out an id again
FreshIds_any(st) == SessionIds

\* the ids create may allocate: new and unique
FreshIds(st) == SessionIds \ DOMAIN st

\* create: a new record under a fresh id, created_at = updated_at = now
create_session(st, id, user, state, t) ==
    [i \in DOMAIN st \cup {id} |->
        IF i = id THEN [user_id |-> user, created_at |-> t, updated_at |-> t, state |-> state]
        ELSE st[i]]

\* a variant that leaves updated_at as it was
replace_state_stale(st, id, state, t) ==
    [st EXCEPT ![id].state = state]

\* a variant that keeps the stored history unless the new one is longer
replace_state_merge(st, id, state, t) ==
    [st EXCEPT ![id].state =
                  IF Len(@.interaction_history) >= Len(state.interaction_history)
                  THEN [state EXCEPT !.interaction_history = st[id].state.interaction_history]
                  ELSE state,
               ![id].updated_at = t]

\* replace_state: the whole state mapping is overwritten, updated_at = now
replace_state(st, id, state, t) ==
    [st EXCEPT ![id].state = state, ![id].updated_at = t]

NoRes == [op |-> "none"]
NoSnap == [held |-> FALSE]
NoWrite == [kind |-> "none"]
NoExport == [stage |-> 0]

Init ==
    /\ store = <<>>
    /\ now = 0
    /\ USER_ID = [p \in Procs |-> "alice"]
    /\ pc = [p \in Procs |-> "start"]
    /\ SESSION_ID = [p \in Procs |-> 0]
    /\ snap = [p \in Procs |-> NoSnap]
    /\ nOps = 0
    /\ calls = [s \in SessionIds |-> <<>>]
    /\ raced = [s \in SessionIds |-> FALSE]
    /\ lastWrite = [s \in SessionIds |-> NoWrite]
    /\ exp = [p \in Procs |-> NoExport]
    /\ existing_sessions = [p \in Procs |-> <<>>]
    /\ res = NoRes

Tick ==
    /\ now < MaxClock
    /\ now' = now + 1
    /\ res' = NoRes
    /\ UNCHANGED <<store, USER_ID, pc, SESSION_ID, snap, nOps, calls, raced, lastWrite, exp, existing_sessions>>

(* ----------------------- main.py: main_async -------------------------- *)
\* PART 3, the try block and its handler: list the user's sessions and
\* continue the first one listed, or create one seeded with initial_state;
\* on any exception create a fresh session, and return when that fails too.
\* listOk / createOk / retryOk: whether the store call raises. A run that
\* continues a session goes on to read the user's summary (ResumeSummary).
find_or_create(p, listOk, order, createOk, retryOk, id) ==
    LET user == USER_ID[p]
        before == SessionsOf(store, user)
        initial_state == get_initial_state(user)
        resumes == listOk /\ Len(order) > 0
        creates == listOk /\ Len(order) = 0 /\ createOk
        retries == ~resumes /\ ~creates /\ retryOk
        outcome == IF resumes THEN "resumed"
                   ELSE IF creates THEN "created"
                   ELSE IF retries THEN "fallback_created"
                   ELSE "failed"
        sid == IF resumes THEN order[1] ELSE IF creates \/ retries THEN id ELSE 0
    IN  /\ pc[p] = "start"
        /\ order \in Perms(before)
        /\ store' = IF creates \/ retries
                    THEN create_session(store, id, user, initial_state, now)
                    ELSE store
        /\ SESSION_ID' = [SESSION_ID EXCEPT ![p] = sid]
        /\ pc' = [pc EXCEPT ![p] = IF outcome = "failed" THEN "returned"
                                   ELSE IF resumes THEN "summary" ELSE "loop"]
        /\ existing_sessions' = [existing_sessions EXCEPT ![p] = IF resumes THEN order ELSE <<>>]
        /\ res' = [op |-> "find_or_create", user |-> user, outcome |-> outcome,
                   session_id |-> sid, is_new |-> (creates \/ retries),
                   listed |-> IF listOk THEN order ELSE <<>>, list_ok |-> listOk,
                   before |-> before]
        /\ UNCHANGED <<now, USER_ID, snap, nOps, calls, raced, lastWrite, exp>>

\* id = 0: the run creates nothing (the store hands out no id)
MainStart(p) ==
    \E listOk, createOk, retryOk \in BOOLEAN :
      \E order \in Perms(SessionsOf(store, USER_ID[p])) :
        \E id \in FreshIds(store) \cup {0} :
          /\ (id # 0) = ((listOk /\ Len(order) = 0 /\ createOk) \/ (~(listOk /\ Len(order) > 0) /\ retryOk))
          /\ find_or_create(p, listOk, order, createOk, retryOk, id)

\* PART 5: 'exit' or 'quit' ends the conversation loop
MainExit(p) ==
    /\ pc[p] = "loop"
    /\ ~snap[p].held
    /\ pc' = [pc EXCEPT ![p] = "returned"]
    /\ res' = NoRes
    /\ UNCHANGED <<store, now, USER_ID, SESSION_ID, snap, nOps, calls, raced, lastWrite, exp, existing_sessions>>

\* the program is started again, and a user authenticates (auth.py)
MainRestart(p) ==
    /\ pc[p] = "returned"
    /\ exp[p].stage = 0
    /\ \E u \in Users : USER_ID' = [USER_ID EXCEPT ![p] = u]
    /\ pc' = [pc EXCEPT ![p] = "start"]
    /\ SESSION_ID' = [SESSION_ID EXCEPT ![p] = 0]
    /\ res' = NoRes
    /\ UNCHANGED <<store, now, snap, nOps, calls, raced, lastWrite, exp, existing_sessions>>

(* ------------- Session Manager: the ledger operations ----------------- *)
\* A ledger operation is a read-modify-write cycle on the whole state: the
\* caller obtains the session (get), changes one field of the state it read
\* and writes the whole state back (replace_state).
HasCourse(state, course_id) ==
    \E i \in 1..Len(state.purchased_courses) : state.purchased_courses[i].id = course_id

\* a variant that puts the record in front
append_interaction_prepend(state, record, t) ==
    [state EXCEPT !.interaction_history = <<[record EXCEPT !.timestamp = t]>> \o @]

\* append_interaction: the record goes to the end, stamped with now()
append_interaction(state, record, t) ==
    [state EXCEPT !.interaction_history = Append(@, [record EXCEPT !.timestamp = t])]

\* record_purchase: a new entry at the end, no deduplication
record_purchase(state, course_id, t) ==
    [state EXCEPT !.purchased_courses = Append(@, [id |-> course_id, purchase_date |-> t])]

\* the positions of the entries of that course
Matching(state, course_id) ==
    {i \in 1..Len(state.purchased_courses) : state.purchased_courses[i].id = course_id}

\* a variant that removes the oldest entry, of whatever course
record_refund_oldest(state, course_id, i) ==
    IF ~HasCourse(state, course_id)
    THEN [status |-> "CourseNotPurchased", state |-> state]
    ELSE [status |-> "ok", state |-> [state EXCEPT !.purchased_courses = Tail(@)]]

\* a variant that reports success when nothing matches
record_refund_silent(state, course_id, i) ==
    IF ~HasCourse(state, course_id)
    THEN [status |-> "ok", state |-> state]
    ELSE [status |-> "ok", state |-> [state EXCEPT !.purchased_courses = RemoveAt(@, i)]]

\* record_refund: a matching entry (the one at position i) is removed;
\* CourseNotPurchased, and the state as it was, when none matches
record_refund(state, course_id, i) ==
    IF ~HasCourse(state, course_id)
    THEN [status |-> "CourseNotPurchased", state |-> state]
    ELSE [status |-> "ok", state |-> [state EXCEPT !.purchased_courses = RemoveAt(@, i)]]

\* the caller obtains its session
GetSession(p, budget) ==
    /\ pc[p] = "loop"
    /\ ~snap[p].held
    /\ nOps < budget
    /\ SESSION_ID[p] \in DOMAIN store
    /\ snap' = [snap EXCEPT ![p] = [held |-> TRUE, state |-> store[SESSION_ID[p]].state]]
    /\ res' = NoRes
    /\ UNCHANGED <<store, now, USER_ID, pc, SESSION_ID, nOps, calls, raced, lastWrite, exp, existing_sessions>>

\* the write that ends a ledger operation of p: replace_state with the
\* whole state
Write(p, state, write) ==
    LET sid == SESSION_ID[p] IN
    /\ store' = replace_state(store, sid, state, now)
    /\ snap' = [snap EXCEPT ![p] = NoSnap]
    /\ nOps' = nOps + 1
    /\ raced' = [raced EXCEPT ![sid] = @ \/ snap[p].state # store[sid].state]
    /\ lastWrite' = [lastWrite EXCEPT ![sid] = [state |-> state] @@ write]
    /\ UNCHANGED <<now, USER_ID, SESSION_ID, exp, existing_sessions>>

\* the same, from anywhere in the conversation loop
Commit(p, state, write) ==
    /\ Write(p, state, write)
    /\ UNCHANGED pc

AppendInteraction(p, action, agent) ==
    LET sid == SESSION_ID[p]
        record == [action |-> action, agent |-> agent, content |-> "text", timestamp |-> 0]
        state == append_interaction(snap[p].state, record, now)
    IN  /\ snap[p].held
        /\ Commit(p, state, [kind |-> "append"])
        /\ calls' = [calls EXCEPT ![sid] = Append(@, [record EXCEPT !.timestamp = now])]
        /\ res' = [op |-> "append_interaction", session_id |-> sid, status |-> "ok",
                   before |-> store[sid].state.interaction_history]

RecordPurchase(p, course_id) ==
    LET sid == SESSION_ID[p]
        state == record_purchase(snap[p].state, course_id, now)
        fresh == snap[p].state = store[sid].state
    IN  /\ snap[p].held
        /\ Commit(p, state, [kind |-> "purchase", course_id |-> course_id, fresh |-> fresh,
                             pre |-> store[sid].state.purchased_courses])
        /\ res' = [op |-> "record_purchase", session_id |-> sid, status |-> "ok",
                   course_id |-> course_id]
        /\ UNCHANGED calls

RecordRefund(p, course_id) ==
    LET sid == SESSION_ID[p]
        read == snap[p].state
        fresh == read = store[sid].state
        last == lastWrite[sid]
        follows == fresh /\ last.kind = "purchase" /\ last.course_id = course_id /\ last.fresh
    IN  /\ snap[p].held
        /\ \E i \in IF Matching(read, course_id) = {} THEN {0} ELSE Matching(read, course_id) :
             LET out == record_refund(read, course_id, i) IN
             /\ IF out.status = "ok"
                THEN Commit(p, out.state, [kind |-> "refund"])
                ELSE /\ snap' = [snap EXCEPT ![p] = NoSnap]
                     /\ nOps' = nOps + 1
                     /\ UNCHANGED <<store, now, USER_ID, pc, SESSION_ID, raced, lastWrite, exp, existing_sessions>>
             /\ res' = [op |-> "record_refund", session_id |-> sid, status |-> out.status,
                        course_id |-> course_id, read |-> read.purchased_courses,
                        before |-> store[sid], follows_purchase |-> follows,
                        pre_purchase |-> IF follows THEN last.pre ELSE <<>>]
        /\ UNCHANGED calls

Records == {<<"user_query", "">>} \cup {<<"agent_response", a>> : a \in Agents}

(* ------------- database_utils.py: CustomerServiceDatabase ------------- *)
\* dict.get(key, default)
Get(d, key, default) == IF key \in DOMAIN d THEN d[key] ELSE default

\* a truthy timestamp string: not None (and not empty)
Truthy(v) == v # None

\* a truthy name: not the empty string
NonEmpty(a) == a # ""

\* datetime.fromisoformat: the timestamps of the model are its well-formed
\* inputs, anything else raises ValueError
IsIsoFormat(v) == v \in Times

Timestamp(state, key) ==
    LET v == Get(state, key, None) IN IF Truthy(v) THEN v ELSE None

\* a variant that lists the sessions of every user
get_user_sessions_all_users(st, order, listOk) ==
    LET all == CHOOSE f \in Perms(DOMAIN st) : \A i, j \in DOMAIN f : i < j => f[i] < f[j]
    IN  IF ~listOk THEN <<>>
        ELSE [i \in 1..Len(all) |->
                [ session_id |-> all[i],
                  user_id |-> st[all[i]].user_id,
                  created_at |-> None,
                  updated_at |-> None,
                  state |-> st[all[i]].state ]]

\* a variant whose result goes on with the sessions of the other users
get_user_sessions_unfiltered(st, order, listOk) ==
    LET rest == DOMAIN st \ Range(order)
        others == CHOOSE f \in Perms(rest) : \A i, j \in DOMAIN f : i < j => f[i] < f[j]
        all == order \o others
    IN  IF ~listOk THEN <<>>
        ELSE [i \in 1..Len(all) |->
                [ session_id |-> all[i],
                  user_id |-> st[all[i]].user_id,
                  created_at |-> Timestamp(st[all[i]].state, "created_at"),
                  updated_at |-> Timestamp(st[all[i]].state, "updated_at"),
                  state |-> st[all[i]].state ]]

\* get_user_sessions: one SessionInfo per listed session, with the
\* timestamps taken from the state; any exception is printed and the
\* result is the empty list. order: the store's listing; listOk: whether
\* list_sessions returns
get_user_sessions(st, order, listOk) ==
    LET raises == \E i \in 1..Len(order) : \E key \in {"created_at", "updated_at"} :
                     LET v == Get(st[order[i]].state, key, None)
                     IN  Truthy(v) /\ ~IsIsoFormat(v)
    IN  IF ~listOk \/ raises THEN <<>>
        ELSE [i \in 1..Len(order) |->
                [ session_id |-> order[i],
                  user_id |-> st[order[i]].user_id,
                  created_at |-> Timestamp(st[order[i]].state, "created_at"),
                  updated_at |-> Timestamp(st[order[i]].state, "updated_at"),
                  state |-> st[order[i]].state ]]

IsQuery(r) == Get(r, "action", "") = "user_query"
IsResponse(r) == Get(r, "action", "") = "agent_response"

\* query_count and response_count of one history
CountQueries(h) == Cardinality({j \in 1..Len(h) : IsQuery(h[j])})
CountResponses(h) == Cardinality({j \in 1..Len(h) : IsResponse(h[j])})

\* a variant that reports the last session of the list as the latest
get_user_interaction_summary_last(sessions) ==
    LET history(i) == Get(sessions[i].state, "interaction_history", <<>>)
        n == Len(sessions)
    IN  [ total_sessions |-> n,
          total_interactions |-> SumSeq([i \in 1..n |-> Len(history(i))]),
          user_queries |-> SumSeq([i \in 1..n |-> CountQueries(history(i))]),
          agent_responses |-> SumSeq([i \in 1..n |-> CountResponses(history(i))]),
          agents_used |-> {Get(history(i)[j], "agent", "") :
                              <<i, j>> \in {<<i, j>> \in (1..n) \X (1..MaxOps + 1) :
                                  /\ j <= Len(history(i))
                                  /\ IsResponse(history(i)[j])
                                  /\ NonEmpty(Get(history(i)[j], "agent", ""))}},
          latest_session |-> IF n > 0 THEN sessions[n].session_id ELSE None ]

\* get_user_interaction_summary, on the list get_user_sessions returned
get_user_interaction_summary(sessions) ==
    LET history(i) == Get(sessions[i].state, "interaction_history", <<>>)
        n == Len(sessions)
    IN  [ total_sessions |-> n,
          total_interactions |-> SumSeq([i \in 1..n |-> Len(history(i))]),
          user_queries |-> SumSeq([i \in 1..n |-> CountQueries(history(i))]),
          agent_responses |-> SumSeq([i \in 1..n |-> CountResponses(history(i))]),
          agents_used |-> {Get(history(i)[j], "agent", "") :
                              <<i, j>> \in {<<i, j>> \in (1..n) \X (1..MaxOps + 1) :
                                  /\ j <= Len(history(i))
                                  /\ IsResponse(history(i)[j])
                                  /\ NonEmpty(Get(history(i)[j], "agent", ""))}},
          latest_session |-> IF n > 0 THEN sessions[1].session_id ELSE None ]

\* course.copy() with the key session_id added
Annotate(course, session_id) ==
    [k \in DOMAIN course \cup {"session_id"} |->
        IF k = "session_id" THEN session_id ELSE course[k]]

\* get_user_course_history, on the list get_user_sessions returned: the
\* entries of every session in turn, each a copy with the session's id
\* (every entry this program stores is a dict)
RECURSIVE get_user_course_history(_)
get_user_course_history(sessions) ==
    IF sessions = <<>> THEN <<>>
    ELSE LET session == Head(sessions)
             courses == Get(session.state, "purchased_courses", <<>>)
         IN  [i \in 1..Len(courses) |-> Annotate(courses[i], session.session_id)]
                 \o get_user_course_history(Tail(sessions))

\* list.sort(key = updated_at, reverse = True): stable, descending
RECURSIVE InsertDesc(_, _)
InsertDesc(sorted, x) ==
    IF sorted = <<>> THEN <<x>>
    ELSE IF Head(sorted).updated_at < x.updated_at THEN <<x>> \o sorted
    ELSE <<Head(sorted)>> \o InsertDesc(Tail(sorted), x)

RECURSIVE SortDesc(_)
SortDesc(sessions) ==
    IF sessions = <<>> THEN <<>>
    ELSE InsertDesc(SortDesc(SubSeq(sessions, 1, Len(sessions) - 1)), sessions[Len(sessions)])

\* comparing a None key raises TypeError; a list of one element compares nothing
SortRaises(sessions) ==
    Len(sessions) >= 2 /\ \E i \in 1..Len(sessions) : sessions[i].updated_at = None

\* sessions[keep_latest:]
SliceFrom(s, k) == IF k >= Len(s) THEN <<>> ELSE SubSeq(s, k + 1, Len(s))

\* cleanup_old_sessions, on the list get_user_sessions returned: the count
\* it returns, the session ids it prints as "Would delete session", and
\* the exception that escapes it ("": none). The store has no delete call:
\* nothing is removed.
cleanup_old_sessions(sessions, keep_latest) ==
    IF Len(sessions) <= keep_latest
    THEN [raised |-> "", returned |-> 0, printed |-> <<>>]
    ELSE IF SortRaises(sessions)
    THEN [raised |-> "TypeError", returned |-> None, printed |-> <<>>]
    ELSE LET sessions_to_delete == SliceFrom(SortDesc(sessions), keep_latest)
         IN  [ raised |-> "",
               returned |-> Len(sessions_to_delete),
               printed |-> [i \in 1..Len(sessions_to_delete) |-> sessions_to_delete[i].session_id] ]

\* the listings the store may answer with for the user
Listings(user, listOk) == IF listOk THEN Perms(SessionsOf(store, user)) ELSE {<<>>}

\* The utilities are called for any user while no conversation is running.
Summary(p, user) ==
    /\ pc[p] = "returned"
    /\ \E listOk \in BOOLEAN : \E order \in Listings(user, listOk) :
         res' = [ op |-> "get_user_interaction_summary", user |-> user,
                  list_ok |-> listOk, listed |-> order,
                  summary |-> get_user_interaction_summary(get_user_sessions(store, order, listOk)) ]
    /\ UNCHANGED <<store, now, USER_ID, pc, SESSION_ID, snap, nOps, calls, raced, lastWrite, exp, existing_sessions>>

CourseHistory(p, user) ==
    /\ pc[p] = "returned"
    /\ \E listOk \in BOOLEAN : \E order \in Listings(user, listOk) :
         res' = [ op |-> "get_user_course_history", user |-> user,
                  list_ok |-> listOk, listed |-> order, raised |-> "",
                  courses |-> get_user_course_history(get_user_sessions(store, order, listOk)) ]
    /\ UNCHANGED <<store, now, USER_ID, pc, SESSION_ID, snap, nOps, calls, raced, lastWrite, exp, existing_sessions>>

Cleanup(p, user, keep_latest) ==
    /\ pc[p] = "returned"
    /\ \E listOk \in BOOLEAN : \E order \in Listings(user, listOk) :
         res' = [ op |-> "cleanup_old_sessions", user |-> user, keep_latest |-> keep_latest,
                  list_ok |-> listOk, listed |-> order, before |-> store,
                  out |-> cleanup_old_sessions(get_user_sessions(store, order, listOk), keep_latest) ]
    /\ UNCHANGED <<store, now, USER_ID, pc, SESSION_ID, snap, nOps, calls, raced, lastWrite, exp, existing_sessions>>

\* export_user_data: the dict it returns
export_user_data(t, user_id, sessions, courses, summary) ==
    [ export_timestamp |-> t,
      user_id |-> user_id,
      app_name |-> DEFAULT_APP_NAME,
      summary |-> summary,
      courses |-> courses,
      sessions |-> sessions ]

\* export_user_data awaits its three queries one after the other, and each
\* lists the user's sessions anew: other callers run in between.
ExportSessions(p, user) ==
    /\ pc[p] = "returned"
    /\ exp[p].stage = 0
    /\ \E listOk \in BOOLEAN : \E order \in Listings(user, listOk) :
         exp' = [exp EXCEPT ![p] =
                    [ stage |-> 1, user |-> user, list_ok |-> <<listOk>>,
                      sessions |-> get_user_sessions(store, order, listOk) ]]
    /\ res' = NoRes
    /\ UNCHANGED <<store, now, USER_ID, pc, SESSION_ID, snap, nOps, calls, raced, lastWrite, existing_sessions>>

ExportCourses(p) ==
    /\ pc[p] = "returned"
    /\ exp[p].stage = 1
    /\ \E listOk \in BOOLEAN : \E order \in Listings(exp[p].user, listOk) :
         exp' = [exp EXCEPT ![p] =
                    [ stage |-> 2, user |-> exp[p].user,
                      list_ok |-> Append(exp[p].list_ok, listOk),
                      sessions |-> exp[p].sessions,
                      courses |-> get_user_course_history(get_user_sessions(store, order, listOk)) ]]
    /\ res' = NoRes
    /\ UNCHANGED <<store, now, USER_ID, pc, SESSION_ID, snap, nOps, calls, raced, lastWrite, existing_sessions>>

ExportSummary(p) ==
    /\ pc[p] = "returned"
    /\ exp[p].stage = 2
    /\ \E listOk \in BOOLEAN : \E order \in Listings(exp[p].user, listOk) :
         LET summary == get_user_interaction_summary(get_user_sessions(store, order, listOk))
         IN  res' = [ op |-> "export_user_data", user |-> exp[p].user,
                      list_ok |-> Append(exp[p].list_ok, listOk), raised |-> "",
                      out |-> export_user_data(now, exp[p].user, exp[p].sessions,
                                               exp[p].courses, summary) ]
    /\ exp' = [exp EXCEPT ![p] = NoExport]
    /\ UNCHANGED <<store, now, USER_ID, pc, SESSION_ID, snap, nOps, calls, raced, lastWrite, existing_sessions>>

\* one step of an export
Export(p) ==
    \/ \E u \in Users : ExportSessions(p, u)
    \/ ExportCourses(p)
    \/ ExportSummary(p)

\* one call of a query or of the clean-up
Queries(p) ==
    /\ exp[p].stage = 0
    /\ \/ \E u \in Users : Summary(p, u)
       \/ \E u \in Users : CourseHistory(p, u)
       \/ \E u \in Users : \E k \in 0..MaxSessions : Cleanup(p, u, k)

\* the same, or one step of an export
Utilities(p) ==
    \/ Queries(p)
    \/ Export(p)

\* one ledger operation of process p
Ledger(p, budget, courses) ==
    \/ GetSession(p, budget)
    \/ \E r \in Records : AppendInteraction(p, r[1], r[2])
    \/ \E c \in courses : RecordPurchase(p, c)
    \/ \E c \in courses : RecordRefund(p, c)

(* ------------- main.py, PART 3: the resume branch goes on -------------- *)
\* With SESSION_ID set from the first listing, the entry point awaits
\* get_user_interaction_summary, which lists the sessions a second time,
\* and prints the totals; then the conversation loop starts.
ResumeSummary(p) ==
    /\ pc[p] = "summary"
    /\ \E listOk \in BOOLEAN : \E order \in Listings(USER_ID[p], listOk) :
         res' = [ op |-> "resume_summary", user |-> USER_ID[p],
                  session_id |-> SESSION_ID[p], existing |-> existing_sessions[p],
                  list_ok |-> listOk, listed |-> order,
                  summary |-> get_user_interaction_summary(get_user_sessions(store, order, listOk)) ]
    /\ pc' = [pc EXCEPT ![p] = "loop"]
    /\ existing_sessions' = [existing_sessions EXCEPT ![p] = <<>>]
    /\ UNCHANGED <<store, now, USER_ID, SESSION_ID, snap, nOps, calls, raced, lastWrite, exp>>

(* ------------- main.py, PART 5: the conversation loop ----------------- *)
\* The loop reads a line; unless it is 'exit' or 'quit' (MainExit) it awaits
\* add_user_query_to_history and then call_agent_async. The agent applies
\* the mutations it decides on and records its final response, if it has one.

\* a variant that hands the line to the agent before the query is recorded
TurnBegin_agent_first(p, budget) ==
    /\ pc[p] = "loop"
    /\ ~snap[p].held
    /\ nOps < budget
    /\ SESSION_ID[p] \in DOMAIN store
    /\ pc' = [pc EXCEPT ![p] = "agent"]
    /\ res' = NoRes
    /\ UNCHANGED <<store, now, USER_ID, SESSION_ID, snap, nOps, calls, raced, lastWrite, exp, existing_sessions>>

\* the user enters a line other than 'exit' or 'quit': a turn begins
TurnBegin(p, budget) ==
    /\ pc[p] = "loop"
    /\ ~snap[p].held
    /\ nOps < budget
    /\ SESSION_ID[p] \in DOMAIN store
    /\ pc' = [pc EXCEPT ![p] = "query"]
    /\ res' = NoRes
    /\ UNCHANGED <<store, now, USER_ID, SESSION_ID, snap, nOps, calls, raced, lastWrite, exp, existing_sessions>>

\* a ledger operation of the turn obtains the session
TurnRead(p) ==
    /\ pc[p] \in {"query", "agent"}
    /\ ~snap[p].held
    /\ snap' = [snap EXCEPT ![p] = [held |-> TRUE, state |-> store[SESSION_ID[p]].state]]
    /\ res' = NoRes
    /\ UNCHANGED <<store, now, USER_ID, pc, SESSION_ID, nOps, calls, raced, lastWrite, exp, existing_sessions>>

\* an append of the turn lands, and the turn moves on to pc value next
TurnAppend(p, action, agent, next) ==
    LET sid == SESSION_ID[p]
        record == [action |-> action, agent |-> agent, content |-> "text", timestamp |-> 0]
        state == append_interaction(snap[p].state, record, now)
    IN  /\ snap[p].held
        /\ Write(p, state, [kind |-> "append"])
        /\ pc' = [pc EXCEPT ![p] = next]
        /\ calls' = [calls EXCEPT ![sid] = Append(@, [record EXCEPT !.timestamp = now])]
        /\ res' = [op |-> "append_interaction", session_id |-> sid, status |-> "ok",
                   before |-> store[sid].state.interaction_history]

\* add_user_query_to_history returns: the agent is called next
AddUserQuery(p) ==
    /\ pc[p] = "query"
    /\ TurnAppend(p, "user_query", "", "agent")

\* add_user_query_to_history fails at the store: the error leaves the loop
AddUserQueryFails(p) ==
    /\ pc[p] = "query"
    /\ pc' = [pc EXCEPT ![p] = "returned"]
    /\ snap' = [snap EXCEPT ![p] = NoSnap]
    /\ res' = [op |-> "append_interaction", session_id |-> SESSION_ID[p],
               status |-> "StoreUnavailable",
               before |-> store[SESSION_ID[p]].state.interaction_history]
    /\ UNCHANGED <<store, now, USER_ID, SESSION_ID, nOps, calls, raced, lastWrite, exp, existing_sessions>>

\* call_agent_async: a purchase or a refund decided by the agent
AgentMutation(p, budget, courses) ==
    /\ pc[p] = "agent"
    /\ nOps < budget
    /\ \/ \E c \in courses : RecordPurchase(p, c)
       \/ \E c \in courses : RecordRefund(p, c)

\* call_agent_async: the final response is recorded, and the turn ends
AgentRespond(p) ==
    /\ pc[p] = "agent"
    /\ \E a \in Agents : TurnAppend(p, "agent_response", a, "loop")

\* call_agent_async returns without a final response
AgentSilent(p) ==
    /\ pc[p] = "agent"
    /\ ~snap[p].held
    /\ pc' = [pc EXCEPT ![p] = "loop"]
    /\ res' = NoRes
    /\ UNCHANGED <<store, now, USER_ID, SESSION_ID, snap, nOps, calls, raced, lastWrite, exp, existing_sessions>>

\* one step of a turn of the conversation loop
Turn(p, budget, courses) ==
    \/ TurnBegin(p, budget)
    \/ TurnRead(p)
    \/ AddUserQuery(p)
    \/ AddUserQueryFails(p)
    \/ AgentMutation(p, budget, courses)
    \/ AgentRespond(p)
    \/ AgentSilent(p)

\* the terminal of the sequential runs
Terminal == "p1"
\* the process that runs the utilities next to a conversation
Script == "p2"

(* ------------------------------ claims -------------------------------- *)
\* the session of the set S with the greatest updated_at, the greatest id among equals
Latest(st, S) ==
    CHOOSE s \in S : \A o \in S :
        \/ st[o].updated_at < st[s].updated_at
        \/ st[o].updated_at = st[s].updated_at /\ o <= s

Resumed == res.op = "find_or_create" /\ res.outcome = "resumed"

\* C1: whenever the entry point continues an existing session, it is the
\* user's session with the greatest updated_at, the greatest session id
\* among those that tie.
C1_ResumeSelectsLatest ==
    Resumed => res.session_id = Latest(store, res.before)

\* C2: the entry point creates a session only for a user that has none, and
\* then exactly one, seeded with the initial state; a user that has sessions
\* keeps exactly those; so no user ever has two sessions.
C2_CreatesOnlyWhenNone ==
    /\ (res.op = "find_or_create" /\ res.outcome # "failed") =>
          IF res.before # {}
          THEN ~res.is_new /\ SessionsOf(store, res.user) = res.before
          ELSE /\ res.is_new
               /\ SessionsOf(store, res.user) = {res.session_id}
               /\ store[res.session_id].state = get_initial_state(res.user)
    /\ \A u \in Users : Cardinality(SessionsOf(store, u)) <= 1

HasEntry(purchased, course_id) == \E i \in 1..Len(purchased) : purchased[i].id = course_id

\* a refund of the course that directly follows its purchase on the session
RefundAfterPurchase ==
    res.op = "record_refund" /\ res.status = "ok" /\ res.follows_purchase

C4_RefundRefused ==
    (res.op = "record_refund" /\ ~HasEntry(res.read, res.course_id)) =>
        /\ res.status = "CourseNotPurchased"
        /\ store[res.session_id] = res.before

C4_Witness ==
    /\ res.op = "record_refund"
    /\ res.read # <<>>
    /\ ~HasEntry(res.read, res.course_id)
    /\ res.status = "CourseNotPurchased"

History(st, s) == st[s].state.interaction_history

NonDecreasing(h) == \A i, j \in 1..Len(h) : i <= j => h[i].timestamp <= h[j].timestamp

\* what a step may do to the history of session s
AppendOnlyStep(s) ==
    /\ History(store', s) = calls'[s]
    /\ NonDecreasing(History(store', s))
    /\ s \in DOMAIN store => IsPrefix(History(store, s), History(store', s))

\* C5 (as claimed): the history of a session is the records of the
\* append_interaction calls made on it, in call order, one per call, with
\* non-decreasing timestamps, and every step extends it.
C5_AppendOnly ==
    [][\A s \in DOMAIN store' : AppendOnlyStep(s)]_vars

\* C5 (amended): the same, for a session on which every write so far was
\* based on the state the session had at the time of the write.
C5_AppendOnlySerialized ==
    [][\A s \in DOMAIN store' : ~raced'[s] => AppendOnlyStep(s)]_vars

C5_Witness ==
    \E s \in DOMAIN store :
        /\ ~raced[s]
        /\ Len(calls[s]) >= 2
        /\ History(store, s) = calls[s]
        /\ calls[s][1].timestamp < calls[s][2].timestamp
        /\ calls[s][1].action # calls[s][2].action
        /\ \A p \in Procs : SESSION_ID[p] = s

Min(a, b) == IF a < b THEN a ELSE b

Cleaned == res.op = "cleanup_old_sessions"

\* C6: cleanup with keep_latest = k leaves the user exactly the k sessions
\* with the greatest updated_at (all of them when there are no more than k)
\* and removes no more than max(0, total - k).
C6_Retention ==
    (Cleaned /\ res.list_ok) =>
        LET before == SessionsOf(res.before, res.user)
            after == SessionsOf(store, res.user)
        IN  /\ after \subseteq before
            /\ Cardinality(after) = Min(res.keep_latest, Cardinality(before))
            /\ \A s \in after : \A o \in before \ after :
                   res.before[o].updated_at <= res.before[s].updated_at

\* C7: the store has no delete call, so cleanup fails with
\* RetentionUnsupported, names exactly the sessions beyond the keep_latest
\* most recently updated, counts zero deleted and removes nothing.
C7_RetentionUnsupported ==
    (Cleaned /\ res.list_ok) =>
        LET before == SessionsOf(res.before, res.user)
            named == Range(res.out.printed)
        IN  /\ store = res.before
            /\ res.out.returned = 0
            /\ Cardinality(before) > res.keep_latest => res.out.raised = "RetentionUnsupported"
            /\ named \subseteq before
            /\ Cardinality(before \ named) = Min(res.keep_latest, Cardinality(before))
            /\ \A s \in before \ named : \A o \in named :
                   res.before[o].updated_at <= res.before[s].updated_at

Summarized == res.op = "get_user_interaction_summary"

ZeroSummary ==
    [ total_sessions |-> 0, total_interactions |-> 0, user_queries |-> 0,
      agent_responses |-> 0, agents_used |-> {}, latest_session |-> None ]

\* C8: the summary of a user with no sessions is the all-zero summary, with
\* no agents and no latest session.
C8_SummaryZeroState ==
    (Summarized /\ SessionsOf(store, res.user) = {}) => res.summary = ZeroSummary

C8_Witness ==
    /\ Summarized
    /\ res.list_ok
    /\ SessionsOf(store, res.user) = {}
    /\ \E s \in DOMAIN store : History(store, s) # <<>>
    /\ res.summary = ZeroSummary

\* the records of the user's sessions, as (session, position) pairs
RecordsOf(user) ==
    {sj \in SessionsOf(store, user) \X (1..MaxOps + 1) : sj[2] <= Len(History(store, sj[1]))}

ActionOf(sj) == History(store, sj[1])[sj[2]].action
AgentOf(sj) == History(store, sj[1])[sj[2]].agent

\* the summary of the user's sessions as they are in the store
Aggregates(user, summary) ==
    /\ summary.total_sessions = Cardinality(SessionsOf(store, user))
    /\ summary.total_interactions = Cardinality(RecordsOf(user))
    /\ summary.user_queries = Cardinality({sj \in RecordsOf(user) : ActionOf(sj) = "user_query"})
    /\ summary.agent_responses =
           Cardinality({sj \in RecordsOf(user) : ActionOf(sj) = "agent_response"})
    /\ summary.agents_used =
           {AgentOf(sj) : sj \in {r \in RecordsOf(user) : ActionOf(r) = "agent_response"}} \ {""}
    /\ summary.user_queries + summary.agent_responses <= summary.total_interactions

\* C9: the summary counts all the sessions of the user, all their records,
\* the user_query and the agent_response records, and collects the
\* non-empty agent names of the agent_response records.
C9_SummaryAggregates ==
    Summarized => Aggregates(res.user, res.summary)

\* C10: latest_session is the first session of the store's listing, and it
\* is None exactly when the user has no sessions.
C10_LatestIsFirstListed ==
    Summarized =>
        /\ res.list_ok /\ res.listed # <<>> => res.summary.latest_session = res.listed[1]
        /\ (res.summary.latest_session = None) = (SessionsOf(store, res.user) = {})

\* what C9 and C10 say, for the calls whose listing the store answered
SummaryOfListing ==
    (Summarized /\ res.list_ok) =>
        /\ Aggregates(res.user, res.summary)
        /\ res.listed # <<>> => res.summary.latest_session = res.listed[1]
        /\ (res.summary.latest_session = None) = (SessionsOf(store, res.user) = {})

SummaryOfListing_Witness ==
    /\ Summarized
    /\ res.list_ok
    /\ res.summary.total_sessions = 2
    /\ res.summary.agent_responses >= 1
    /\ res.summary.user_queries >= 1
    /\ res.summary.agents_used # {}
    /\ store[res.listed[1]].updated_at < store[res.listed[2]].updated_at

CourseHistoryDone == res.op = "get_user_course_history"

\* the entries of the result that come from session s, without the annotation
BlockOf(courses, s) ==
    LET mine == SelectSeq(courses, LAMBDA c : c.session_id = s)
    IN  [i \in 1..Len(mine) |-> [k \in DOMAIN mine[i] \ {"session_id"} |-> mine[i][k]]]

\* the position of session s in a listing
PosIn(listed, s) == CHOOSE i \in 1..Len(listed) : listed[i] = s

\* the result holds, session by session in listing order, exactly the
\* purchased entries of the user's sessions
CourseHistoryExact ==
    LET cs == res.courses
        mine == SessionsOf(store, res.user)
    IN  /\ \A i \in 1..Len(cs) : cs[i].session_id \in mine
        /\ \A s \in mine : BlockOf(cs, s) = store[s].state.purchased_courses
        /\ \A i, j \in 1..Len(cs) :
              i < j => PosIn(res.listed, cs[i].session_id) <= PosIn(res.listed, cs[j].session_id)
        /\ \A s \in DOMAIN store : \A i \in 1..Len(store[s].state.purchased_courses) :
              "session_id" \notin DOMAIN store[s].state.purchased_courses[i]

\* C11: get_user_course_history returns every purchased entry of every
\* session of the user, once, in the session's order, the sessions in
\* listing order, each entry annotated with its session's id; the stored
\* entries carry no annotation.
C11_CourseHistory == CourseHistoryDone => CourseHistoryExact

\* the same on the calls whose listing the store answers
CourseHistoryOfListing == CourseHistoryDone /\ res.list_ok => CourseHistoryExact

CourseHistoryOfListing_Witness ==
    /\ CourseHistoryDone
    /\ res.list_ok
    /\ Len(res.listed) = 2
    /\ Len(res.courses) >= 1

Exported == res.op = "export_user_data"

\* C12: when the store fails while listing the sessions, course history
\* and export fail with that error (StoreUnavailable) instead of returning
\* an empty or degraded result.
C12_StoreErrorsPropagate ==
    /\ CourseHistoryDone /\ ~res.list_ok => res.raised = "StoreUnavailable"
    /\ Exported /\ (\E i \in 1..Len(res.list_ok) : ~res.list_ok[i]) => res.raised = "StoreUnavailable"

\* C15: every export is one consistent snapshot: its summary counts the
\* sessions and the interactions of its own list of sessions, and its
\* courses are exactly the purchased entries of those sessions.
C15_ExportSnapshot ==
    Exported =>
        LET out == res.out
            n == Len(out.sessions)
        IN  /\ out.summary.total_sessions = n
            /\ out.summary.total_interactions =
                  SumSeq([i \in 1..n |-> Len(out.sessions[i].state.interaction_history)])
            /\ \A i \in 1..Len(out.courses) :
                  \E j \in 1..n : out.sessions[j].session_id = out.courses[i].session_id
            /\ \A j \in 1..n : BlockOf(out.courses, out.sessions[j].session_id)
                                   = out.sessions[j].state.purchased_courses

\* an export whose three listings the store answered and whose parts
\* nevertheless disagree: something was written between two of its queries
TornExport ==
    /\ Exported
    /\ \A i \in 1..Len(res.list_ok) : res.list_ok[i]
    /\ ~C15_ExportSnapshot

FindOrCreateDone == res.op = "find_or_create"

\* a store call of the try block raised: the listing, or the create after
\* an empty listing
StoreCallFailed ==
    \/ ~res.list_ok
    \/ res.list_ok /\ res.listed = <<>> /\ res.outcome # "created"

\* C13: when the store's list or create fails, find-or-create fails and
\* calls the store no further: no session is created after a failure.
C13_NoFallback ==
    FindOrCreateDone /\ StoreCallFailed =>
        /\ res.outcome = "failed"
        /\ ~res.is_new
        /\ SessionsOf(store, res.user) = res.before

\* a ledger write on session s landed in this step
Wrote(s) == nOps' = nOps + 1 /\ res'.session_id = s /\ res'.status = "ok"

\* C14: replace_state is atomic and last-writer-wins: whenever a session
\* changes, also under two concurrent writers, its stored state is exactly
\* the state of the write that landed last, and updated_at has not gone back.
C14_LastWriterWins ==
    [][\A s \in DOMAIN store :
          store'[s] # store[s] =>
              /\ store'[s].state = lastWrite'[s].state
              /\ store'[s].updated_at >= store[s].updated_at]_vars

\* two writers read the same state of a session, and both writes landed
C14_Witness ==
    \E s \in DOMAIN store :
        /\ raced[s]
        /\ lastWrite[s].kind # "none"
        /\ store[s].state = lastWrite[s].state
        /\ store[s].state # get_initial_state(store[s].user_id)

\* C16: created_at <= updated_at in every session; created_at never
\* changes, updated_at never decreases, and every replace_state sets it to
\* the time of the write.
C16_Timestamps ==
    [][\A s \in DOMAIN store' :
          /\ store'[s].created_at <= store'[s].updated_at
          /\ s \in DOMAIN store =>
                /\ store'[s].created_at = store[s].created_at
                /\ store'[s].updated_at >= store[s].updated_at
                /\ Wrote(s) => store'[s].updated_at = now']_vars

\* a session written after the clock moved on
C16_Witness ==
    \E s \in DOMAIN store :
        /\ lastWrite[s].kind # "none"
        /\ store[s].created_at < store[s].updated_at

\* a create returned in this step
Created == \E p \in Procs : pc[p] = "start" /\ pc'[p] # "start" /\ res'.is_new

Restrict(st, user) == [s \in SessionsOf(st, user) |-> st[s]]

\* the sessions of the other users are in the store as they were
OthersUntouched(S) ==
    \A s \in DOMAIN store \ S : s \in DOMAIN store' /\ store'[s] = store[s]

\* C19: a ledger operation on one session changes no other session; the
\* clean-up for one user touches no session of another user; and what
\* summary, course history, clean-up and export answer for a user is what
\* they answer on the store without the other users' sessions.
C19_PartitionIsolation ==
    [][/\ nOps' = nOps + 1 => OthersUntouched({res'.session_id})
       /\ res'.op = "cleanup_old_sessions" =>
             /\ OthersUntouched(SessionsOf(store, res'.user))
             /\ Range(res'.out.printed) \subseteq SessionsOf(store, res'.user)
             /\ res'.out = cleanup_old_sessions(
                     get_user_sessions(Restrict(store', res'.user), res'.listed, res'.list_ok),
                     res'.keep_latest)
       /\ res'.op = "get_user_interaction_summary" =>
             res'.summary = get_user_interaction_summary(
                     get_user_sessions(Restrict(store', res'.user), res'.listed, res'.list_ok))
       /\ res'.op = "get_user_course_history" =>
             res'.courses = get_user_course_history(
                     get_user_sessions(Restrict(store', res'.user), res'.listed, res'.list_ok))
       /\ res'.op = "export_user_data" =>
             LET out == res'.out
                 mine == SessionsOf(store', res'.user)
             IN  /\ \A i \in 1..Len(out.sessions) : out.sessions[i].session_id \in mine
                 /\ \A i \in 1..Len(out.courses) : out.courses[i].session_id \in mine
                 /\ out.summary.latest_session \in mine \cup {None}
                 /\ out.summary.total_sessions <= Cardinality(mine)]_vars

\* the course history of a user without purchases, while another user
\* holds one
C19_Witness ==
    /\ CourseHistoryDone
    /\ res.list_ok
    /\ res.listed # <<>>
    /\ res.courses = <<>>
    /\ \E s \in DOMAIN store :
          store[s].user_id # res.user /\ store[s].state.purchased_courses # <<>>

\* every agent_response stands right behind the user_query of its turn
QueryFirst(h) ==
    \A j \in 1..Len(h) : IsResponse(h[j]) => j > 1 /\ IsQuery(h[j - 1])

\* C20: every turn records the user's query before the agent is invoked,
\* so in the history of the session each agent_response follows the
\* user_query of its turn; 'exit' or 'quit' records nothing.
C20_TurnOrdering ==
    [][\A p \in Procs :
          LET s == SESSION_ID[p] IN
          /\ pc[p] = "query" /\ pc'[p] = "agent" =>
                /\ Len(History(store', s)) = Len(History(store, s)) + 1
                /\ IsPrefix(History(store, s), History(store', s))
                /\ IsQuery(History(store', s)[Len(History(store', s))])
          /\ pc[p] = "loop" /\ pc'[p] = "returned" => store' = store
          /\ s \in DOMAIN store' => QueryFirst(History(store', s))]_vars

\* two turns, each with its query and its response, and then 'exit'
C20_Witness ==
    /\ pc[Terminal] = "returned"
    /\ SESSION_ID[Terminal] \in DOMAIN store
    /\ LET h == History(store, SESSION_ID[Terminal])
       IN  /\ Len(h) = 4
           /\ IsQuery(h[1]) /\ IsResponse(h[2]) /\ IsQuery(h[3]) /\ IsResponse(h[4])

ResumeSummarized == res.op = "resume_summary"

ResumeSummaryDisagree ==
    /\ ResumeSummarized
    /\ res.list_ok
    /\ res.summary.latest_session # res.session_id

\* The program run again and again from one terminal, by any user.
Next ==
    \/ Tick
    \/ MainStart(Terminal)
    \/ ResumeSummary(Terminal)
    \/ MainExit(Terminal)
    \/ MainRestart(Terminal)
    \/ Ledger(Terminal, MaxRunOps, Sold)

Spec == Init /\ [][Next]_vars

\* One run of the program and its conversation.
NextLedger ==
    \/ Tick
    \/ MainStart(Terminal)
    \/ Ledger(Terminal, MaxOps, Courses)

SpecLedger == Init /\ [][NextLedger]_vars

\* The same, with the utilities called between the runs.
NextUtilities ==
    \/ Tick
    \/ MainStart(Terminal)
    \/ ResumeSummary(Terminal)
    \/ MainExit(Terminal)
    \/ MainRestart(Terminal)
    \/ Ledger(Terminal, MaxRunOps, Sold)
    \/ Queries(Terminal)

SpecUtilities == Init /\ [][NextUtilities]_vars

\* Two runs of the program at the same time, each run once, by the same
\* user or by two users.
InitConcurrent ==
    /\ store = <<>>
    /\ now = 0
    /\ USER_ID \in {f \in [Procs -> Users] : f[Terminal] = "alice"}
    /\ pc = [p \in Procs |-> "start"]
    /\ SESSION_ID = [p \in Procs |-> 0]
    /\ snap = [p \in Procs |-> NoSnap]
    /\ nOps = 0
    /\ calls = [s \in SessionIds |-> <<>>]
    /\ raced = [s \in SessionIds |-> FALSE]
    /\ lastWrite = [s \in SessionIds |-> NoWrite]
    /\ exp = [p \in Procs |-> NoExport]
    /\ existing_sessions = [p \in Procs |-> <<>>]
    /\ res = NoRes

NextConcurrent ==
    \/ Tick
    \/ \E p \in Procs : MainStart(p)
    \/ \E p \in Procs : ResumeSummary(p)
    \/ \E p \in Procs : Ledger(p, MaxRaceOps, Sold)

SpecConcurrent == InitConcurrent /\ [][NextConcurrent]_vars

\* One run of the program, and the utilities called from another process
\* while the conversation goes on.
InitExport ==
    /\ store = <<>>
    /\ now = 0
    /\ USER_ID = [p \in Procs |-> "alice"]
    /\ pc = [p \in Procs |-> IF p = Script THEN "returned" ELSE "start"]
    /\ SESSION_ID = [p \in Procs |-> 0]
    /\ snap = [p \in Procs |-> NoSnap]
    /\ nOps = 0
    /\ calls = [s \in SessionIds |-> <<>>]
    /\ raced = [s \in SessionIds |-> FALSE]
    /\ lastWrite = [s \in SessionIds |-> NoWrite]
    /\ exp = [p \in Procs |-> NoExport]
    /\ existing_sessions = [p \in Procs |-> <<>>]
    /\ res = NoRes

NextExport ==
    \/ Tick
    \/ MainStart(Terminal)
    \/ Ledger(Terminal, MaxRaceOps, Sold)
    \/ Utilities(Script)

SpecExport == InitExport /\ [][NextExport]_vars

\* The program started again and again, without conversation.
NextSessions ==
    \/ Tick
    \/ MainStart(Terminal)
    \/ ResumeSummary(Terminal)
    \/ MainExit(Terminal)
    \/ MainRestart(Terminal)

SpecSessions == Init /\ [][NextSessions]_vars

\* The runs of the program one after another, with every utility, the
\* export too, called between them.
NextIsolation ==
    \/ Tick
    \/ MainStart(Terminal)
    \/ ResumeSummary(Terminal)
    \/ MainExit(Terminal)
    \/ MainRestart(Terminal)
    \/ Ledger(Terminal, MaxQuietOps, Sold)
    \/ Utilities(Terminal)

SpecIsolation == Init /\ [][NextIsolation]_vars

\* One run of the program, its conversation turn by turn.
NextLoop ==
    \/ Tick
    \/ MainStart(Terminal)
    \/ MainExit(Terminal)
    \/ Turn(Terminal, MaxOps, Sold)

SpecLoop == Init /\ [][NextLoop]_vars
====
